---- MODULE Spec2Model ----
(***************************************************************************)
(* Model of scripts/release_validate.py: the release validation pipeline   *)
(* of EpicWeatherBox (ValidationReport, ReleaseValidator, main).           *)
(*                                                                         *)
(* A source text is modelled by what the checks compute from it: the set   *)
(* of searched substrings it contains and the counts the checks take.      *)
(* The project directory and the build toolchain are external; every fact  *)
(* about them is fixed for the whole behaviour and is determined the first *)
(* time the program observes it (variable observed).                       *)
(* The details field of a ValidationResult is not modelled: no decision    *)
(* reads it.                                                               *)
(***************************************************************************)
EXTENDS Integers, Sequences, FiniteSets, TLC

VARIABLES
    pc,             \* the statement the program is at
    files,          \* which project files exist (Path.exists)
    unreadable,     \* the files whose read_text() raises and the directories
                    \* that cannot be searched
    previous,       \* the report the validator before this one returned, if any
    strict,         \* args.strict
    observed,       \* external facts observed so far: input name -> value
    results,        \* ValidationReport.results
    firmware_path,  \* ValidationReport.firmware_path ("None" when unset)
    firmware_size,  \* ValidationReport.firmware_size
    build_success,  \* run_all_checks' local build_success (FALSE before Phase 2)
    exit_code,      \* main's the exit status (-1 while the process runs)
    runs            \* calls of run_all_checks on this validator so far

vars == <<pc, files, unreadable, previous, strict, observed, results,
          firmware_path, firmware_size, build_success, exit_code, runs>>

(***************************************************************************)
(* Program constants.  The usage thresholds are kept in hundredths.        *)
(***************************************************************************)
ESP8266_FLASH_APP_MAX == 1048576
FLASH_USAGE_WARN == 85
FLASH_USAGE_CRITICAL == 95
RAM_USAGE_WARN == 70
RAM_USAGE_CRITICAL == 85

(***************************************************************************)
(* Bounds of the model.                                                    *)
(***************************************************************************)
\* calls of run_all_checks on one validator (RerunSpec)
MaxRuns == 2
\* results appended to a bare report (ReportSpec)
MaxAdds == 3

FIRMWARE_BIN == ".pio/build/esp8266/firmware.bin"

required_files == <<"src/main.cpp", "src/config.h", "platformio.ini">>
ProjectFiles == {"src/main.cpp", "src/config.h", "platformio.ini", "src/admin_html.h"}

(***************************************************************************)
(* ValidationResult and ValidationReport                                   *)
(***************************************************************************)
ValidationResult(name, passed_, message, severity, details) ==
    [name |-> name, passed |-> passed_, message |-> message, severity |-> severity,
     details |-> details]

\* the details of a result made without them: a new empty list
no_details == <<>>

\* add putting the new result in front (list.insert(0, result))
add_prepend(rs, result) == <<result>> \o rs

\* ValidationReport.add
add(rs, result) == Append(rs, result)

\* Python's any() over a sequence of booleans
RECURSIVE any(_)
any(bs) == IF bs = <<>> THEN FALSE
           ELSE IF Head(bs) THEN TRUE ELSE any(Tail(bs))

\* passed with the severity test left out: any failing result blocks
passed_any_failure(rs) ==
    ~any([i \in 1..Len(rs) |-> ~rs[i].passed])

\* ValidationReport.passed
passed(rs) ==
    ~any([i \in 1..Len(rs) |-> rs[i].severity = "critical" /\ ~rs[i].passed])

\* has_warnings with the passed test left out: any warning severity counts
has_warnings_by_severity(rs) ==
    any([i \in 1..Len(rs) |-> rs[i].severity = "warning"])

\* ValidationReport.has_warnings
has_warnings(rs) ==
    any([i \in 1..Len(rs) |-> rs[i].severity = "warning" /\ ~rs[i].passed])

\* ValidationReport.critical_failures
critical_failures(rs) ==
    SelectSeq(rs, LAMBDA r : r.severity = "critical" /\ ~r.passed)

\* ValidationReport.warnings
warnings(rs) ==
    SelectSeq(rs, LAMBDA r : r.severity = "warning" /\ ~r.passed)

(***************************************************************************)
(* The environment: what each read of the project or of the toolchain can  *)
(* deliver.                                                                *)
(***************************************************************************)
\* src/config.h: the OTA markers it contains
ConfigTexts == { {"FEATURE_OTA_UPDATE 1"}, {"FEATURE_OTA_UPDATE  1"}, {} }

\* src/main.cpp as check_watchdog_timer reads it: whether it holds
\* "ESP.wdtEnable" or "wdt_enable", count("yield()") and count("delay(")
WatchdogTexts == { [has_wdt_enable |-> TRUE, yield_count |-> 2, delay_count |-> 2],
                   [has_wdt_enable |-> FALSE, yield_count |-> 0, delay_count |-> 5] }

\* src/main.cpp as check_ota_handler reads it (a text holding
\* "ArduinoOTA.begin()" holds "ArduinoOTA")
OtaHandlerTexts == { {"ArduinoOTA", "\"/update\"", "ArduinoOTA.begin()"},
                     {"ArduinoOTA", "ArduinoOTA.handle()"},
                     {"handleUpdate"} }

\* src/main.cpp as check_safe_mode reads it, lower-cased words and markers
SafeModeTexts == { {"safe", "mode"}, {"safe", "ESP.restart()"}, {"reset=1"} }

\* str(Path.home()) of the user who runs release_validate.py: an ordinary home,
\* the root directory, and names with an apostrophe and with a backslash
HomeDirs == {"/root", "/", "/Users/o'brien", "/h\\x"}

\* str(self.pio_path), with pio_path = Path.home() / "Library/Python/3.9/bin/pio":
\* pathlib puts one separator between the two parts, none after a root and
\* none after the empty path "."
pio_path(home) ==
    LET rest == "Library/Python/3.9/bin/pio"
    IN IF home = "." THEN rest
       ELSE IF SubSeq(home, Len(home), Len(home)) = "/" THEN home \o rest
       ELSE home \o "/" \o rest

\* character c occurs in string s
has_char(s, c) == \E i \in 1..Len(s) : SubSeq(s, i, i) = c

\* one character as repr() writes it inside the quotes: backslash, newline,
\* carriage return, tab and the quote character in use are escaped
escape_char(c, quote) ==
    CASE c = "\\" -> "\\\\"
      [] c = "\n" -> "\\n"
      [] c = "\r" -> "\\r"
      [] c = "\t" -> "\\t"
      [] c = quote -> "\\" \o c
      [] OTHER -> c

RECURSIVE escape(_, _)
\* the characters of s as repr() writes them inside the quotes
escape(s, quote) ==
    IF s = "" THEN ""
    ELSE escape_char(SubSeq(s, 1, 1), quote) \o escape(Tail(s), quote)

\* repr() of a str of printable characters, newlines, carriage returns and
\* tabs: double quotes when it holds an apostrophe and no double quote,
\* single quotes otherwise
repr(s) ==
    LET quote == IF has_char(s, "'") /\ ~has_char(s, "\"") THEN "\"" ELSE "'"
    IN quote \o escape(s, quote) \o quote

\* str(e) of the FileNotFoundError subprocess.run raises when the executable
\* it is given does not exist: OSError writes repr(filename)
no_such_file(path) == "[Errno 2] No such file or directory: " \o repr(path)

\* stdout + stderr of a build as _parse_build_output searches it: the first
\* match of the RAM pattern and of the Flash pattern, each none or one, with
\* the percentage matched (in tenths of a percent) and the bytes used
NoOutput == [ram |-> <<>>, flash |-> <<>>]

\* subprocess.run of [str(pio_path), "run", "-e", "esp8266"]: what it raises
\* (with str(e)), or the exit status and the output
BuildRuns == { [raises |-> "none", returncode |-> 0, error |-> "",
                output |-> [ram |-> <<[pct |-> 450, used |-> 36864]>>,
                            flash |-> <<[pct |-> 906, used |-> 950000]>>]],
               [raises |-> "none", returncode |-> 1, error |-> "", output |-> NoOutput],
               [raises |-> "none", returncode |-> 1, error |-> "",
                output |-> [ram |-> <<[pct |-> 452, used |-> 37052]>>, flash |-> <<>>]],
               [raises |-> "TimeoutExpired", returncode |-> 0, error |-> "",
                output |-> NoOutput] }
             \cup { [raises |-> "FileNotFoundError", returncode |-> 0,
                     error |-> no_such_file(pio_path(home)),
                     output |-> NoOutput] : home \in HomeDirs }

\* sizes of the built binary, in bytes: both sides of each threshold of the
\* 1,048,576-byte budget and the two sizes of the spec's scenarios
FirmwareSizes == {891289, 891290, 950000, 996147, 996148, 1030000}

\* .pio/build/esp8266/firmware.bin after a build
FirmwareFiles == { [exists |-> FALSE, size |-> 0] }
                 \cup { [exists |-> TRUE, size |-> s] : s \in FirmwareSizes }

\* RAM percentages of the verbose build output, in tenths of a percent
RamPcts == {699, 700, 849, 850}

\* subprocess.run of [str(pio_path), "run", "-e", "esp8266", "-v"]: what it
\* raises, and whether the output matches the RAM pattern, with the percentage
\* matched
VerboseRuns == { [raises |-> "none", ram_match |-> FALSE, ram_pct |-> 0],
                 [raises |-> "TimeoutExpired", ram_match |-> FALSE, ram_pct |-> 0],
                 [raises |-> "FileNotFoundError", ram_match |-> FALSE, ram_pct |-> 0] }
               \cup { [raises |-> "none", ram_match |-> TRUE, ram_pct |-> p] : p \in RamPcts }

\* src/main.cpp as check_string_safety reads it: len(s) of the quoted strings
\* of 100 characters or more that have no PROGMEM in the 50 characters before
\* them, in the order of the text
StringTexts == { [unqualified |-> <<>>],
                 [unqualified |-> <<102, 150, 102, 2048, 120, 300>>] }

\* src/admin_html.h: the markers it contains
AdminTexts == { {"PROGMEM"}, {} }

\* src/main.cpp as check_infinite_loops reads it: the line numbers of the
\* while(true) blocks holding none of yield(), delay( and break
LoopTexts == { [unsafe_loops |-> <<>>], [unsafe_loops |-> <<12>>] }

\* src/main.cpp as check_blocking_code reads it: the delay(N) calls with their
\* line number and N, and the markers it contains
BlockingTexts == { [delays |-> <<[line |-> 10, ms |-> 5000]>>,
                    markers |-> {"http.GET()", "setTimeout"}],
                   [delays |-> <<[line |-> 10, ms |-> 5000], [line |-> 20, ms |-> 5001]>>,
                    markers |-> {"http.GET()"}] }

\* src/main.cpp as check_memory_allocations reads it: the char, uint8_t and
\* byte arrays with their line number and size, and the allocation and
\* release counts
AllocTexts == { [arrays |-> <<[line |-> 5, size |-> 2048]>>,
                 malloc_count |-> 3, free_count |-> 1],
                [arrays |-> <<[line |-> 5, size |-> 2048], [line |-> 7, size |-> 2049]>>,
                 malloc_count |-> 4, free_count |-> 1] }

Inputs(k) ==
    CASE k = "config"      -> ConfigTexts
      [] k = "watchdog"    -> WatchdogTexts
      [] k = "ota_handler" -> OtaHandlerTexts
      [] k = "safe_mode"   -> SafeModeTexts
      [] k = "build"       -> BuildRuns
      [] k = "firmware"    -> FirmwareFiles
      [] k = "verbose"     -> VerboseRuns
      [] k = "strings"     -> StringTexts
      [] k = "admin"       -> AdminTexts
      [] k = "loops"       -> LoopTexts
      [] k = "blocking"    -> BlockingTexts
      [] k = "allocations" -> AllocTexts

Known(k) == k \in DOMAIN observed

\* the values a read of input k can deliver
Reads(k) == IF Known(k) THEN {observed[k]} ELSE Inputs(k)

\* observed after a read of input k delivered v
Remember(k, v) == IF Known(k) THEN observed ELSE (k :> v) @@ observed

\* Path.exists() of a path that can be looked up
exists(f) == files[f]

RECURSIVE first_part(_)
\* the first component of a relative path
first_part(path) ==
    IF path = "" \/ SubSeq(path, 1, 1) = "/" THEN ""
    ELSE SubSeq(path, 1, 1) \o first_part(Tail(path))

\* Path.exists() raises: the directory the path goes through cannot be
\* searched (PermissionError, which pathlib does not take for absence)
exists_fails(f) == has_char(f, "/") /\ first_part(f) \in unreadable

\* Path.read_text() of an existing file raises (no permission, not UTF-8 text)
read_fails(f) == exists(f) /\ f \in unreadable

\* the paths a step tests with exists()
exists_of(step) ==
    CASE step = "check_source_files" -> {required_files[i] : i \in 1..Len(required_files)}
      [] step = "check_required_features" -> {"src/config.h"}
      [] step \in {"check_watchdog_timer", "check_ota_handler", "check_safe_mode",
                   "check_infinite_loops", "check_blocking_code",
                   "check_memory_allocations"} -> {"src/main.cpp"}
      [] step = "check_string_safety" -> {"src/main.cpp", "src/admin_html.h"}
      [] step = "analyze_firmware_size" -> {FIRMWARE_BIN}
      [] OTHER -> {}

\* the files a check reads with read_text(), when they exist
reads_of(step) ==
    CASE step = "check_required_features" -> {"src/config.h"}
      [] step \in {"check_watchdog_timer", "check_ota_handler", "check_safe_mode",
                   "check_infinite_loops", "check_blocking_code",
                   "check_memory_allocations"} -> {"src/main.cpp"}
      [] step = "check_string_safety" -> {"src/main.cpp", "src/admin_html.h"}
      [] OTHER -> {}

\* an exists() or a read of the step raises: no step catches it
raises_in(step) ==
    \/ \E f \in exists_of(step) : exists_fails(f)
    \/ \E f \in reads_of(step) : read_fails(f)

RECURSIVE join(_)
\* ', '.join(names)
join(names) == IF names = <<>> THEN ""
               ELSE IF Len(names) = 1 THEN names[1]
               ELSE names[1] \o ", " \o join(Tail(names))

\* str() of the float of a matched percentage with at most one decimal,
\* given in tenths of a percent: "45" and "45.0" both read 45.0
float_str(tenths) == ToString(tenths \div 10) \o "." \o ToString(tenths % 10)

\* a group of three digits after a thousands separator
pad3(k) == IF k < 10 THEN "00" \o ToString(k)
           ELSE IF k < 100 THEN "0" \o ToString(k)
           ELSE ToString(k)

RECURSIVE commas(_)
\* f"{n:,}" of a natural number
commas(n) == IF n < 1000 THEN ToString(n)
             ELSE commas(n \div 1000) \o "," \o pad3(n % 1000)

RECURSIVE name_of(_)
\* Path.name: what follows the last separator of the path
name_of(path) ==
    IF ~has_char(path, "/") THEN path
    ELSE name_of(Tail(path))

\* issues[:5]
first5(issues) == SubSeq(issues, 1, IF Len(issues) < 5 THEN Len(issues) ELSE 5)

(***************************************************************************)
(* Phase 1: pre-build checks                                               *)
(***************************************************************************)
check_source_files ==
    /\ pc = "check_source_files"
    /\ ~raises_in("check_source_files")
    /\ LET missing == SelectSeq(required_files, LAMBDA f : ~exists(f))
       IN results' = add(results, ValidationResult(
              "Source Files",
              Len(missing) = 0,
              IF missing = <<>>
                THEN "All " \o ToString(Len(required_files)) \o " required files present"
                ELSE "Missing: " \o join(missing),
              IF missing # <<>> THEN "critical" ELSE "info",
              no_details))
    /\ pc' = "check_required_features"
    /\ UNCHANGED <<files, unreadable, previous, strict, observed, firmware_path, firmware_size,
                   build_success, exit_code, runs>>

\* ota_update_feature with a disabled OTA feature reported as a warning
ota_update_feature_warning(config) ==
    LET ota_enabled == \/ "FEATURE_OTA_UPDATE 1" \in config
                       \/ "FEATURE_OTA_UPDATE  1" \in config
    IN ValidationResult(
           "OTA Update Feature",
           ota_enabled,
           IF ota_enabled
             THEN "OTA updates enabled"
             ELSE "OTA updates DISABLED - recovery impossible without hardware mod!",
           IF ~ota_enabled THEN "warning" ELSE "info",
           no_details)

\* the result with the severity "critical" whether OTA is enabled or not
ota_update_feature_always_critical(config) ==
    LET ota_enabled == \/ "FEATURE_OTA_UPDATE 1" \in config
                       \/ "FEATURE_OTA_UPDATE  1" \in config
    IN ValidationResult(
           "OTA Update Feature",
           ota_enabled,
           IF ota_enabled
             THEN "OTA updates enabled"
             ELSE "OTA updates DISABLED - recovery impossible without hardware mod!",
           "critical",
           no_details)

\* the result check_required_features adds for a configuration text
ota_update_feature(config) ==
    LET ota_enabled == \/ "FEATURE_OTA_UPDATE 1" \in config
                       \/ "FEATURE_OTA_UPDATE  1" \in config
    IN ValidationResult(
           "OTA Update Feature",
           ota_enabled,
           IF ota_enabled
             THEN "OTA updates enabled"
             ELSE "OTA updates DISABLED - recovery impossible without hardware mod!",
           IF ~ota_enabled THEN "critical" ELSE "info",
           no_details)

check_required_features ==
    /\ pc = "check_required_features"
    /\ ~raises_in("check_required_features")
    /\ pc' = "check_watchdog_timer"
    /\ IF ~exists("src/config.h")
         THEN UNCHANGED <<results, observed>>
         ELSE \E config \in Reads("config") :
                /\ results' = add(results, ota_update_feature(config))
                /\ observed' = Remember("config", config)
    /\ UNCHANGED <<files, unreadable, previous, strict, firmware_path, firmware_size,
                   build_success, exit_code, runs>>

check_watchdog_timer ==
    /\ pc = "check_watchdog_timer"
    /\ ~raises_in("check_watchdog_timer")
    /\ pc' = "check_ota_handler"
    /\ IF ~exists("src/main.cpp")
         THEN UNCHANGED <<results, observed>>
         ELSE \E code \in Reads("watchdog") :
                LET watchdog_safe == (code.yield_count + code.delay_count) >= 5
                    details ==
                        (IF code.has_wdt_enable THEN <<"WDT enable found">> ELSE <<>>)
                        \o (IF code.yield_count > 0
                              THEN <<"yield() calls: " \o ToString(code.yield_count)>>
                              ELSE <<>>)
                        \o (IF code.delay_count > 0
                              THEN <<"delay() calls: " \o ToString(code.delay_count)>>
                              ELSE <<>>)
                IN /\ results' = add(results, ValidationResult(
                          "Watchdog Timer",
                          watchdog_safe,
                          IF watchdog_safe
                            THEN "Watchdog timer properly serviced"
                            ELSE "Insufficient yield/delay calls - risk of WDT reset",
                          IF ~watchdog_safe THEN "warning" ELSE "info",
                          details))
                   /\ observed' = Remember("watchdog", code)
    /\ UNCHANGED <<files, unreadable, previous, strict, firmware_path, firmware_size,
                   build_success, exit_code, runs>>

check_ota_handler ==
    /\ pc = "check_ota_handler"
    /\ ~raises_in("check_ota_handler")
    /\ pc' = "check_safe_mode"
    /\ IF ~exists("src/main.cpp")
         THEN UNCHANGED <<results, observed>>
         ELSE \E code \in Reads("ota_handler") :
                LET checks == <<"ArduinoOTA" \in code,
                                "\"/update\"" \in code \/ "handleUpdate" \in code,
                                "ArduinoOTA.begin()" \in code \/ "ArduinoOTA.handle()" \in code>>
                    keys == <<"ArduinoOTA", "Web OTA endpoint", "OTA begin">>
                    all_present == \A i \in 1..Len(checks) : checks[i]
                    details == [i \in 1..Len(checks) |->
                                  (IF checks[i] THEN "[OK]" ELSE "[MISSING]")
                                  \o " " \o keys[i]]
                IN /\ results' = add(results, ValidationResult(
                          "OTA Handler",
                          all_present,
                          IF all_present
                            THEN "OTA handler properly configured"
                            ELSE "OTA handler incomplete",
                          IF ~all_present THEN "critical" ELSE "info",
                          details))
                   /\ observed' = Remember("ota_handler", code)
    /\ UNCHANGED <<files, unreadable, previous, strict, firmware_path, firmware_size,
                   build_success, exit_code, runs>>

check_safe_mode ==
    /\ pc = "check_safe_mode"
    /\ ~raises_in("check_safe_mode")
    /\ pc' = "build_firmware"
    /\ IF ~exists("src/main.cpp")
         THEN UNCHANGED <<results, observed>>
         ELSE \E code \in Reads("safe_mode") :
                LET has_safe_mode == \/ ("safe" \in code /\ "mode" \in code)
                                     \/ "emergency" \in code
                                     \/ "recovery" \in code
                    has_config_reset == "LittleFS.format()" \in code \/ "reset=1" \in code
                    safe_recovery == has_safe_mode \/ has_config_reset
                IN /\ results' = add(results, ValidationResult(
                          "Safe Mode/Recovery",
                          safe_recovery,
                          IF safe_recovery
                            THEN "Safe mode/recovery mechanism present"
                            ELSE "No safe mode detected - consider adding emergency recovery",
                          IF ~safe_recovery THEN "warning" ELSE "info",
                          no_details))
                   /\ observed' = Remember("safe_mode", code)
    /\ UNCHANGED <<files, unreadable, previous, strict, firmware_path, firmware_size,
                   build_success, exit_code, runs>>

(***************************************************************************)
(* Phase 2: the build                                                      *)
(***************************************************************************)
\* _parse_build_output: a line for the RAM match and a line for the Flash
\* match, each when the pattern matches
parse_build_output(output) ==
    (IF output.ram # <<>>
       THEN <<"RAM: " \o float_str(output.ram[1].pct) \o "% ("
              \o ToString(output.ram[1].used) \o " bytes)">>
       ELSE <<>>)
    \o (IF output.flash # <<>>
          THEN <<"Flash: " \o float_str(output.flash[1].pct) \o "% ("
                 \o ToString(output.flash[1].used) \o " bytes)">>
          ELSE <<>>)

\* the details of the Build result of a toolchain run that completed
build_details(output) ==
    LET size_info == parse_build_output(output)
    IN IF size_info # <<>> THEN size_info ELSE <<"No size info available">>

\* build_outcome with the exit status not looked at: a run that completes
\* counts as a success
build_outcome_any_status(result) ==
    IF result.raises = "none"
      THEN [added |-> ValidationResult("Build", TRUE, "Build successful", "info",
                                       build_details(result.output)),
            returns |-> TRUE]
    ELSE IF result.raises = "TimeoutExpired"
      THEN [added |-> ValidationResult(
                          "Build", FALSE, "Build timed out after 5 minutes", "critical",
                          no_details),
            returns |-> FALSE]
    ELSE [added |-> ValidationResult(
                        "Build", FALSE, "Build error: " \o result.error, "critical",
                        no_details),
          returns |-> FALSE]

\* build_firmware for one run of the toolchain: the result it adds and the
\* value it returns
build_outcome(result) ==
    IF result.raises = "none"
      THEN LET success == result.returncode = 0
           IN [added |-> ValidationResult(
                             "Build",
                             success,
                             IF success THEN "Build successful" ELSE "Build FAILED",
                             IF ~success THEN "critical" ELSE "info",
                             build_details(result.output)),
               returns |-> success]
    ELSE IF result.raises = "TimeoutExpired"
      THEN [added |-> ValidationResult(
                          "Build", FALSE, "Build timed out after 5 minutes", "critical",
                          no_details),
            returns |-> FALSE]
    ELSE [added |-> ValidationResult(
                        "Build", FALSE, "Build error: " \o result.error, "critical",
                        no_details),
          returns |-> FALSE]

\* after_build without the gate: Phase 3 and Phase 4 run whatever the build did
after_build_ungated(success) == "analyze_firmware_size"

\* run_all_checks after the build: Phase 3 and Phase 4 only if it succeeded
after_build(success) == IF success THEN "analyze_firmware_size" ELSE "returned"

build_firmware ==
    /\ pc = "build_firmware"
    /\ \E result \in Reads("build") :
         /\ observed' = Remember("build", result)
         /\ results' = add(results, build_outcome(result).added)
         /\ build_success' = build_outcome(result).returns
    /\ pc' = after_build(build_success')
    /\ UNCHANGED <<files, unreadable, previous, strict, firmware_path, firmware_size,
                   exit_code, runs>>

(***************************************************************************)
(* Phase 3: binary analysis                                                *)
(***************************************************************************)
\* f"{num/den:.1f}" for a quotient the float holds exactly: one decimal,
\* ties to even
fmt1(num, den) ==
    LET q == (num * 10) \div den
        r == (num * 10) % den
        t == IF 2 * r > den \/ (2 * r = den /\ q % 2 = 1) THEN q + 1 ELSE q
    IN ToString(t \div 10) \o "." \o ToString(t % 10)

\* size_class against a budget of 1,000,000 bytes instead of ESP8266_FLASH_APP_MAX
size_class_decimal(size) ==
    IF size * 100 >= FLASH_USAGE_CRITICAL * 1000000 THEN "critical"
    ELSE IF size * 100 >= FLASH_USAGE_WARN * 1000000 THEN "warning"
    ELSE "info"

\* the severity class of a binary of this size: size / ESP8266_FLASH_APP_MAX is
\* exact in a float, and no size of the budget's range lies between a
\* threshold and the float nearest to it
size_class(size) ==
    IF size * 100 >= FLASH_USAGE_CRITICAL * ESP8266_FLASH_APP_MAX THEN "critical"
    ELSE IF size * 100 >= FLASH_USAGE_WARN * ESP8266_FLASH_APP_MAX THEN "warning"
    ELSE "info"

\* firmware_binary_missing reported as a warning
firmware_binary_missing_warning ==
    ValidationResult("Firmware Binary", FALSE, "Firmware binary not found", "warning",
                     no_details)

\* the result analyze_firmware_size adds when the binary does not exist
firmware_binary_missing ==
    ValidationResult("Firmware Binary", FALSE, "Firmware binary not found", "critical",
                     no_details)

analyze_firmware_size ==
    /\ pc = "analyze_firmware_size"
    /\ ~raises_in("analyze_firmware_size")
    /\ pc' = "analyze_memory_usage"
    /\ \E bin \in Reads("firmware") :
         /\ observed' = Remember("firmware", bin)
         /\ IF ~bin.exists
              THEN /\ results' = add(results, firmware_binary_missing)
                   /\ UNCHANGED <<firmware_path, firmware_size>>
              ELSE LET size == bin.size
                       size_kb == fmt1(size, 1024)
                       size_pct == fmt1(size * 100, ESP8266_FLASH_APP_MAX)
                       severity == size_class(size)
                       msg == CASE severity = "critical" ->
                                     "Firmware too large: " \o size_kb \o "KB (" \o size_pct
                                     \o "% of " \o fmt1(ESP8266_FLASH_APP_MAX, 1024) \o "KB limit)"
                                [] severity = "warning" ->
                                     "Firmware size warning: " \o size_kb \o "KB ("
                                     \o size_pct \o "%)"
                                [] OTHER ->
                                     "Firmware size OK: " \o size_kb \o "KB ("
                                     \o size_pct \o "%)"
                       details == <<"Binary: " \o name_of(FIRMWARE_BIN),
                                    "Size: " \o commas(size) \o " bytes",
                                    "Max allowed: " \o commas(ESP8266_FLASH_APP_MAX)
                                    \o " bytes">>
                   IN /\ firmware_path' = FIRMWARE_BIN
                      /\ firmware_size' = size
                      /\ results' = add(results, ValidationResult(
                             "Firmware Size", severity # "critical", msg, severity,
                             details))
    /\ UNCHANGED <<files, unreadable, previous, strict, build_success, exit_code, runs>>

\* ram_class with the flash thresholds in place of the RAM thresholds
ram_class_flash(ram_pct) ==
    IF ram_pct >= FLASH_USAGE_CRITICAL * 10 THEN "critical"
    ELSE IF ram_pct >= FLASH_USAGE_WARN * 10 THEN "warning"
    ELSE "info"

\* the severity class of a RAM percentage given in tenths of a percent
ram_class(ram_pct) ==
    IF ram_pct >= RAM_USAGE_CRITICAL * 10 THEN "critical"
    ELSE IF ram_pct >= RAM_USAGE_WARN * 10 THEN "warning"
    ELSE "info"

analyze_memory_usage ==
    /\ pc = "analyze_memory_usage"
    /\ pc' = "check_string_safety"
    /\ \E result \in Reads("verbose") :
         /\ observed' = Remember("verbose", result)
         /\ IF result.raises = "none" /\ result.ram_match
              THEN LET ram_pct == float_str(result.ram_pct)
                       details == <<"Compile-time RAM: " \o ram_pct \o "%">>
                       severity == ram_class(result.ram_pct)
                       msg == CASE severity = "critical" -> "RAM usage critical: " \o ram_pct \o "%"
                                [] severity = "warning" -> "RAM usage high: " \o ram_pct \o "%"
                                [] OTHER -> "RAM usage OK: " \o ram_pct \o "%"
                   IN results' = add(results, ValidationResult(
                          "RAM Usage", severity # "critical", msg, severity, details))
              ELSE UNCHANGED results
    /\ UNCHANGED <<files, unreadable, previous, strict, firmware_path, firmware_size,
                   build_success, exit_code, runs>>

check_string_safety ==
    /\ pc = "check_string_safety"
    /\ ~raises_in("check_string_safety")
    /\ pc' = "check_infinite_loops"
    /\ \E code \in (IF exists("src/main.cpp") THEN Reads("strings")
                                                  ELSE {[unqualified |-> <<>>]}),
          admin \in (IF exists("src/admin_html.h") THEN Reads("admin") ELSE {{"PROGMEM"}}) :
         LET issues ==
                 [i \in 1..Len(code.unqualified) |->
                    "Large string (" \o ToString(code.unqualified[i])
                    \o " chars) may not be in PROGMEM"]
                 \o (IF "PROGMEM" \notin admin
                       THEN <<"admin_html.h should use PROGMEM for HTML content">>
                       ELSE <<>>)
         IN /\ results' = add(results, ValidationResult(
                   "PROGMEM Usage",
                   Len(issues) = 0,
                   IF issues = <<>> THEN "String storage optimized"
                                    ELSE ToString(Len(issues)) \o " potential RAM issues",
                   IF issues # <<>> THEN "warning" ELSE "info",
                   first5(issues)))
            /\ observed' =
                 LET o1 == IF exists("src/main.cpp") /\ ~Known("strings")
                             THEN ("strings" :> code) @@ observed ELSE observed
                 IN IF exists("src/admin_html.h") /\ ~Known("admin")
                      THEN ("admin" :> admin) @@ o1 ELSE o1
    /\ UNCHANGED <<files, unreadable, previous, strict, firmware_path, firmware_size,
                   build_success, exit_code, runs>>

(***************************************************************************)
(* Phase 4: static analysis                                                *)
(***************************************************************************)
check_infinite_loops ==
    /\ pc = "check_infinite_loops"
    /\ ~raises_in("check_infinite_loops")
    /\ pc' = "check_blocking_code"
    /\ IF ~exists("src/main.cpp")
         THEN UNCHANGED <<results, observed>>
         ELSE \E code \in Reads("loops") :
                LET issues == [i \in 1..Len(code.unsafe_loops) |->
                                 "Line ~" \o ToString(code.unsafe_loops[i])
                                 \o ": while(true) without yield/delay"]
                IN /\ results' = add(results, ValidationResult(
                          "Infinite Loop Check",
                          Len(issues) = 0,
                          IF issues = <<>>
                            THEN "No unsafe infinite loops detected"
                            ELSE ToString(Len(issues)) \o " potential infinite loops",
                          IF issues # <<>> THEN "warning" ELSE "info",
                          first5(issues)))
                   /\ observed' = Remember("loops", code)
    /\ UNCHANGED <<files, unreadable, previous, strict, firmware_path, firmware_size,
                   build_success, exit_code, runs>>

check_blocking_code ==
    /\ pc = "check_blocking_code"
    /\ ~raises_in("check_blocking_code")
    /\ pc' = "check_memory_allocations"
    /\ IF ~exists("src/main.cpp")
         THEN UNCHANGED <<results, observed>>
         ELSE \E code \in Reads("blocking") :
                LET no_timeout == /\ "http.GET()" \in code.markers
                                  /\ "setTimeout" \notin code.markers
                                  /\ "setConnectTimeout" \notin code.markers
                    long_delays == SelectSeq(code.delays, LAMBDA d : d.ms > 5000)
                    issues ==
                        [i \in 1..Len(long_delays) |->
                           "Line ~" \o ToString(long_delays[i].line) \o ": delay("
                           \o ToString(long_delays[i].ms)
                           \o "ms) - very long blocking delay"]
                        \o (IF no_timeout
                              THEN <<"HTTP requests may lack timeout - could block indefinitely">>
                              ELSE <<>>)
                IN /\ results' = add(results, ValidationResult(
                          "Blocking Code",
                          Len(issues) = 0,
                          IF issues = <<>> THEN "No problematic blocking code"
                                           ELSE ToString(Len(issues)) \o " blocking issues",
                          IF issues # <<>> THEN "warning" ELSE "info",
                          first5(issues)))
                   /\ observed' = Remember("blocking", code)
    /\ UNCHANGED <<files, unreadable, previous, strict, firmware_path, firmware_size,
                   build_success, exit_code, runs>>

check_memory_allocations ==
    /\ pc = "check_memory_allocations"
    /\ ~raises_in("check_memory_allocations")
    /\ pc' = "returned"
    /\ IF ~exists("src/main.cpp")
         THEN UNCHANGED <<results, observed>>
         ELSE \E code \in Reads("allocations") :
                LET leak == code.malloc_count > code.free_count + 2
                    large_arrays == SelectSeq(code.arrays, LAMBDA a : a.size > 2048)
                    issues ==
                        [i \in 1..Len(large_arrays) |->
                           "Line ~" \o ToString(large_arrays[i].line)
                           \o ": Large stack array (" \o ToString(large_arrays[i].size)
                           \o " bytes)"]
                        \o (IF leak
                              THEN <<"Potential memory leak: " \o ToString(code.malloc_count)
                                     \o " allocations vs " \o ToString(code.free_count)
                                     \o " frees">>
                              ELSE <<>>)
                IN /\ results' = add(results, ValidationResult(
                          "Memory Allocations",
                          Len(issues) = 0,
                          IF issues = <<>> THEN "Memory allocation patterns OK"
                                           ELSE ToString(Len(issues)) \o " memory concerns",
                          IF issues # <<>> THEN "warning" ELSE "info",
                          first5(issues)))
                   /\ observed' = Remember("allocations", code)
    /\ UNCHANGED <<files, unreadable, previous, strict, firmware_path, firmware_size,
                   build_success, exit_code, runs>>

\* an exists() or a read_text() raises inside a step: the exception leaves the
\* step, run_all_checks and main, and the interpreter ends the process with
\* a traceback and exit status 1; no report is printed
uncaught_read_error ==
    /\ raises_in(pc)
    /\ pc' = "crashed"
    /\ exit_code' = 1
    /\ UNCHANGED <<files, unreadable, previous, strict, observed, results,
                   firmware_path, firmware_size, build_success, runs>>

\* the steps of run_all_checks after its entry
run_all_checks ==
    \/ check_source_files
    \/ check_required_features
    \/ check_watchdog_timer
    \/ check_ota_handler
    \/ check_safe_mode
    \/ build_firmware
    \/ analyze_firmware_size
    \/ analyze_memory_usage
    \/ check_string_safety
    \/ check_infinite_loops
    \/ check_blocking_code
    \/ check_memory_allocations

(***************************************************************************)
(* The decision: print_report's return value and main's strict handling    *)
(***************************************************************************)
\* the value print_report returns for a report
report_code(rs) ==
    IF ~passed(rs) THEN 1
    ELSE IF has_warnings(rs) THEN 2
    ELSE 0

\* what parser.parse_args() makes of the command line: it returns the
\* arguments, or prints an error and exits, or prints the help and exits
CommandLines == {"accepted", "rejected", "help"}

\* the exit status of parse_args for a command line it does not accept
parse_exit(argv) == IF argv = "rejected" THEN 2 ELSE 0

\* main before the run: the command line is parsed, the project root is
\* checked, then the validator is built and run_all_checks is entered
main_setup ==
    /\ pc = "main"
    /\ \E argv \in CommandLines :
         IF argv # "accepted"
           THEN /\ exit_code' = parse_exit(argv)
                /\ pc' = "exited"
                /\ UNCHANGED runs
         ELSE IF ~exists("platformio.ini")
           THEN /\ exit_code' = 1
                /\ pc' = "exited"
                /\ UNCHANGED runs
           ELSE /\ pc' = "check_source_files"
                /\ runs' = runs + 1
                /\ UNCHANGED exit_code
    /\ UNCHANGED <<files, unreadable, previous, strict, observed, results, firmware_path,
                   firmware_size,
                   build_success>>

print_report ==
    /\ pc = "returned"
    /\ exit_code' = report_code(results)
    /\ pc' = "main_strict"
    /\ UNCHANGED <<files, unreadable, previous, strict, observed, results, firmware_path,
                   firmware_size,
                   build_success, runs>>

\* strict_exit_code with the strict flag not looked at
strict_exit_code_ignored(strict_, code) == code

\* main's exit code for print_report's return value: --strict turns 2 into 1
strict_exit_code(strict_, code) == IF strict_ /\ code = 2 THEN 1 ELSE code

\* main after print_report, up to sys.exit
main_exit ==
    /\ pc = "main_strict"
    /\ exit_code' = strict_exit_code(strict, exit_code)
    /\ pc' = "exited"
    /\ UNCHANGED <<files, unreadable, previous, strict, observed, results, firmware_path,
                   firmware_size,
                   build_success, runs>>

\* ReleaseValidator.__init__: an empty report, nothing observed yet
Constructed ==
    /\ observed = <<>>
    /\ results = <<>>
    /\ firmware_path = "None"
    /\ firmware_size = 0
    /\ build_success = FALSE
    /\ exit_code = -1
    /\ runs = 0

\* the program: main, from the command line
Init ==
    /\ pc = "main"
    /\ files \in [ProjectFiles -> BOOLEAN]
    /\ unreadable = {}
    /\ previous = <<>>
    /\ strict \in BOOLEAN
    /\ Constructed

Next == main_setup \/ run_all_checks \/ print_report \/ main_exit

Spec == Init /\ [][Next]_vars

(***************************************************************************)
(* A validator used as a library: run_all_checks called again on the same  *)
(* ReleaseValidator, whose report __init__ created once.                   *)
(***************************************************************************)
RerunInit ==
    /\ pc = "constructed"
    /\ files \in { f \in [ProjectFiles -> BOOLEAN] :
                      f["platformio.ini"] /\ f["src/admin_html.h"] }
    /\ unreadable = {}
    /\ previous = <<>>
    /\ strict = FALSE
    /\ Constructed

\* a call of run_all_checks: a new frame, its local build_success not yet set
call_run_all_checks ==
    /\ pc \in {"constructed", "returned"}
    /\ runs < MaxRuns
    /\ runs' = runs + 1
    /\ build_success' = FALSE
    /\ pc' = "check_source_files"
    /\ UNCHANGED <<files, unreadable, previous, strict, observed, results, firmware_path,
                   firmware_size, exit_code>>

RerunNext == call_run_all_checks \/ run_all_checks

RerunSpec == RerunInit /\ [][RerunNext]_vars

(***************************************************************************)
(* A bare ValidationReport: any results added in any order.                *)
(***************************************************************************)
Severities == {"info", "warning", "critical"}

AnyResults ==
    { ValidationResult(n, p, "", s, no_details) :
        n \in {"A", "B"}, p \in BOOLEAN, s \in Severities }

ReportInit ==
    /\ pc = "report"
    /\ files = [f \in ProjectFiles |-> FALSE]
    /\ unreadable = {}
    /\ previous = <<>>
    /\ strict = FALSE
    /\ Constructed

report_add ==
    /\ pc = "report"
    /\ Len(results) < MaxAdds
    /\ \E r \in AnyResults : results' = add(results, r)
    /\ UNCHANGED <<pc, files, unreadable, previous, strict, observed, firmware_path, firmware_size,
                   build_success, exit_code, runs>>

ReportNext == report_add

ReportSpec == ReportInit /\ [][ReportNext]_vars

(***************************************************************************)
(* The pipeline run again on the same project: a new ReleaseValidator, and *)
(* with it a new report, for every run, as every run of main makes one.    *)
(* The project directory, the build artifact and the behaviour of the      *)
(* toolchain are unchanged: what a run reads is what the run before read   *)
(* (observed is kept).                                                     *)
(***************************************************************************)
\* new_report with one results list shared by every report (a mutable default)
new_report_shared(old) == old

\* ValidationReport(): results starts as a new empty list
new_report(old) == <<>>

\* main makes a validator only for a directory that holds platformio.ini;
\* run_all_checks does not read the strict flag
RepeatInit ==
    /\ pc = "constructed"
    /\ files \in { f \in [ProjectFiles -> BOOLEAN] : f["platformio.ini"] }
    /\ unreadable = {}
    /\ previous = <<>>
    /\ strict = FALSE
    /\ Constructed

\* the call of run_all_checks on a new validator
first_call ==
    /\ pc = "constructed"
    /\ call_run_all_checks

\* the run has returned its report, which previous keeps;
\* ReleaseValidator(project_dir) once more
construct_again ==
    /\ pc = "returned"
    /\ previous' = <<[results |-> results,
                      firmware_path |-> firmware_path,
                      firmware_size |-> firmware_size]>>
    /\ results' = new_report(results)
    /\ firmware_path' = "None"
    /\ firmware_size' = 0
    /\ build_success' = FALSE
    /\ runs' = 0
    /\ pc' = "constructed"
    /\ UNCHANGED <<files, unreadable, strict, observed, exit_code>>

RepeatNext == first_call \/ construct_again \/ run_all_checks

RepeatSpec == RepeatInit /\ [][RepeatNext]_vars

(***************************************************************************)
(* main on a project whose files may exist and yet not be readable.        *)
(***************************************************************************)
ReadFiles == {"src/main.cpp", "src/config.h", "src/admin_html.h"}

\* the directories of the project the checks look into
SearchDirs == {"src", ".pio"}

IOInit ==
    /\ pc = "main"
    /\ files \in [ProjectFiles -> BOOLEAN]
    /\ unreadable \in SUBSET ({f \in ReadFiles : files[f]} \cup SearchDirs)
    /\ previous = <<>>
    /\ strict \in BOOLEAN
    /\ Constructed

IONext == Next \/ uncaught_read_error

IOSpec == IOInit /\ [][IONext]_vars

(***************************************************************************)
(* Vocabulary of the properties                                            *)
(***************************************************************************)
Indices == 1..Len(results)

HasName(n) == \E i \in Indices : results[i].name = n

CriticalFailing(i) == results[i].severity = "critical" /\ results[i].passed = FALSE

WarningFailing(i) == results[i].severity = "warning" /\ results[i].passed = FALSE

\* run_all_checks has returned its report
RunOver == pc \in {"returned", "main_strict", "exited"}

\* run_all_checks has returned to main
Finished == pc \in {"returned", "main_strict", "exited"} /\ runs > 0

\* main has exited after a run of the pipeline
Decided == pc = "exited" /\ runs > 0

Phase34Names == {"Firmware Binary", "Firmware Size", "RAM Usage", "PROGMEM Usage",
                 "Infinite Loop Check", "Blocking Code", "Memory Allocations"}

Phase34Steps == {"analyze_firmware_size", "analyze_memory_usage", "check_string_safety",
                 "check_infinite_loops", "check_blocking_code", "check_memory_allocations"}

(***************************************************************************)
(* C1.  In every state of a run of the pipeline, the report's passed       *)
(* property is false exactly when some result is critical and failing,     *)
(* and critical_failures lists exactly those results.                      *)
(***************************************************************************)
C1_PassedIffNoCriticalFailure ==
    /\ (passed(results) = FALSE) <=> (\E i \in Indices : CriticalFailing(i))
    /\ Len(critical_failures(results)) = Cardinality({i \in Indices : CriticalFailing(i)})

\* a returned report that fails, holding a failing critical result next to a
\* failing warning
C1_Witness ==
    /\ pc = "returned"
    /\ ~passed(results)
    /\ \E i \in Indices : WarningFailing(i)
    /\ \E i \in Indices : CriticalFailing(i)

(***************************************************************************)
(* C2.  For every sequence of added results, has_warnings is true exactly  *)
(* when some result is a failing warning, and adding a result of severity  *)
(* warning or info leaves passed as it was.                                *)
(***************************************************************************)
C2_WarningsNeverBlock ==
    /\ [](has_warnings(results) <=> (\E i \in Indices : WarningFailing(i)))
    /\ [][ ( /\ Len(results') = Len(results) + 1
             /\ SubSeq(results', 1, Len(results)) = results
             /\ results'[Len(results')].severity \in {"warning", "info"} )
           => passed(results') = passed(results) ]_vars

\* a passing report with warnings whose last added result is a failing warning
C2_Witness ==
    /\ Len(results) >= 2
    /\ WarningFailing(Len(results))
    /\ has_warnings(results)
    /\ passed(results)

(***************************************************************************)
(* C3.  The exit code is the 2x2x2 table of (passed, has_warnings,         *)
(* strict): 1 when the report failed; else 2 with warnings, turned into 1  *)
(* by strict; else 0.  print_report's own return value ignores strict.     *)
(***************************************************************************)
C3_DecisionTable ==
    LET p == ~(\E i \in Indices : CriticalFailing(i))
        w == \E i \in Indices : WarningFailing(i)
    IN /\ Decided =>
            /\ (~p /\ ~w /\ ~strict) => exit_code = 1
            /\ (~p /\ ~w /\ strict)  => exit_code = 1
            /\ (~p /\ w /\ ~strict)  => exit_code = 1
            /\ (~p /\ w /\ strict)   => exit_code = 1
            /\ (p /\ w /\ ~strict)   => exit_code = 2
            /\ (p /\ w /\ strict)    => exit_code = 1
            /\ (p /\ ~w /\ ~strict)  => exit_code = 0
            /\ (p /\ ~w /\ strict)   => exit_code = 0
       /\ (pc = "main_strict") =>
            /\ ~p => exit_code = 1
            /\ (p /\ w) => exit_code = 2
            /\ (p /\ ~w) => exit_code = 0

\* strict mode has turned a REVIEW into a BLOCK
C3_Witness ==
    /\ Decided
    /\ strict
    /\ ~(\E i \in Indices : CriticalFailing(i))
    /\ \E i \in Indices : WarningFailing(i)
    /\ exit_code = 1

(***************************************************************************)
(* C4.  As claimed: a binary in the warning band gives a 'Firmware Size'   *)
(* result of severity warning with passed true, and, the report holding no *)
(* failing critical result, exit code 2 without strict and 1 with it.      *)
(* The code does not do this: the result has passed = true, has_warnings   *)
(* counts failing results only, and the run exits 0.                       *)
(***************************************************************************)
C4_WarningBandReview ==
    ( /\ Decided
      /\ firmware_path # "None"
      /\ firmware_size * 100 >= 85 * 1048576
      /\ firmware_size * 100 < 95 * 1048576 )
    => /\ \E i \in Indices : /\ results[i].name = "Firmware Size"
                             /\ results[i].severity = "warning"
                             /\ results[i].passed
       /\ ~(\E i \in Indices : CriticalFailing(i))
            => exit_code = (IF strict THEN 1 ELSE 2)

(***************************************************************************)
(* C5.  The 'Firmware Size' result is classified by the binary's size      *)
(* against the 1,048,576-byte budget: at least 95% (996,148 bytes or more) *)
(* critical and failed; at least 85% (891,290 bytes or more) and below 95% *)
(* warning and passed; below 85% info and passed.                          *)
(***************************************************************************)
C5_SizeClassification ==
    \A i \in Indices :
        results[i].name = "Firmware Size" =>
            /\ Known("firmware")
            /\ observed["firmware"].exists
            /\ LET size == observed["firmware"].size
                   r == results[i]
               IN /\ firmware_size = size
                  /\ size >= 996148 => (r.severity = "critical" /\ r.passed = FALSE)
                  /\ (size >= 891290 /\ size < 996148) => (r.severity = "warning" /\ r.passed = TRUE)
                  /\ size < 891290 => (r.severity = "info" /\ r.passed = TRUE)
                  /\ size = 1030000 => (r.severity = "critical" /\ r.passed = FALSE)

\* the smallest size of the warning band has been classified
C5_Witness ==
    \E i \in Indices : /\ results[i].name = "Firmware Size"
                       /\ firmware_size = 891290
                       /\ results[i].severity = "warning"

(***************************************************************************)
(* C6.  Phase 1 and the build run in every run, whatever Phase 1 found;    *)
(* the steps of Phase 3 and Phase 4 are reached only after a build that    *)
(* returned success, and after a failed build the report holds none of     *)
(* their results.                                                          *)
(***************************************************************************)
C6_PhaseGating ==
    /\ pc \in Phase34Steps =>
          /\ build_success
          /\ \E i \in Indices : results[i].name = "Build" /\ results[i].passed
    /\ Finished =>
          /\ HasName("Source Files")
          /\ HasName("Build")
          /\ exists("src/config.h") => HasName("OTA Update Feature")
          /\ exists("src/main.cpp") => /\ HasName("Watchdog Timer")
                                       /\ HasName("OTA Handler")
                                       /\ HasName("Safe Mode/Recovery")
    /\ (\E i \in Indices : results[i].name = "Build" /\ ~results[i].passed) =>
          /\ \A i \in Indices : results[i].name \notin Phase34Names
          /\ pc \notin Phase34Steps
    /\ (Finished /\ \E i \in Indices : results[i].name = "Build" /\ results[i].passed) =>
          /\ HasName("Firmware Binary") \/ HasName("Firmware Size")
          /\ HasName("PROGMEM Usage")

\* the build ran, and failed, after Phase 1 had added a critical failure
C6_Witness ==
    /\ pc = "returned"
    /\ \E i \in Indices : results[i].name = "OTA Handler" /\ CriticalFailing(i)
    /\ \E i \in Indices : results[i].name = "Build" /\ CriticalFailing(i)

(***************************************************************************)
(* C7.  build_firmware adds exactly one 'Build' result and returns true    *)
(* exactly when the toolchain completed with exit status zero; a non-zero  *)
(* status, a timeout and any other error each give a critical failing      *)
(* result (with the timeout and the error message) and return false.       *)
(***************************************************************************)
C7_BuildResult ==
    /\ ~Known("build") => ~HasName("Build")
    /\ Known("build") =>
          LET run == observed["build"]
              builds == {i \in Indices : results[i].name = "Build"}
          IN /\ Cardinality(builds) = 1
             /\ build_success <=> (run.raises = "none" /\ run.returncode = 0)
             /\ \A i \in builds :
                  LET r == results[i]
                  IN /\ (run.raises = "none" /\ run.returncode = 0) =>
                          (r.passed = TRUE /\ r.severity = "info")
                     /\ (run.raises = "none" /\ run.returncode # 0) =>
                          (r.passed = FALSE /\ r.severity = "critical")
                     /\ run.raises = "TimeoutExpired" =>
                          /\ r.passed = FALSE /\ r.severity = "critical"
                          /\ r.message = "Build timed out after 5 minutes"
                     /\ run.raises \notin {"none", "TimeoutExpired"} =>
                          /\ r.passed = FALSE /\ r.severity = "critical"
                          /\ r.message = "Build error: " \o run.error

\* the toolchain completed with a non-zero exit status
C7_Witness ==
    /\ Known("build")
    /\ observed["build"].raises = "none"
    /\ observed["build"].returncode # 0
    /\ pc = "returned"

(***************************************************************************)
(* C8.  When src/config.h exists and holds no OTA-enabled marker, the      *)
(* 'OTA Update Feature' result is critical and failed, print_report        *)
(* returns 1 and main exits 1, whatever the other checks, the build and    *)
(* the strict flag.                                                        *)
(***************************************************************************)
C8_OtaDisabledBlocks ==
    ( /\ exists("src/config.h")
      /\ Known("config")
      /\ "FEATURE_OTA_UPDATE 1" \notin observed["config"]
      /\ "FEATURE_OTA_UPDATE  1" \notin observed["config"] )
    => /\ \E i \in Indices : /\ results[i].name = "OTA Update Feature"
                             /\ results[i].passed = FALSE
                             /\ results[i].severity = "critical"
       /\ pc \in {"main_strict", "exited"} => exit_code = 1

\* the OTA marker is missing, every other check passed, and main has exited
C8_Witness ==
    /\ Decided
    /\ Known("config")
    /\ observed["config"] = {}
    /\ Len(results) = 12
    /\ \A i \in Indices : results[i].name # "OTA Update Feature" => results[i].passed
    /\ \A i \in Indices : results[i].severity \in {"info", "critical"}

(***************************************************************************)
(* C9.  A finished report with firmware_path unset holds a critical        *)
(* failing result: 'Build' when the build failed, 'Firmware Binary' when   *)
(* it succeeded; firmware_size is 0 while firmware_path is unset; and the  *)
(* two fields are written only by analyze_firmware_size, only while unset, *)
(* and only when the binary exists.                                        *)
(***************************************************************************)
C9_FirmwarePath ==
    /\ []( (Finished /\ firmware_path = "None") =>
             \/ /\ ~build_success
                /\ \E i \in Indices : results[i].name = "Build" /\ CriticalFailing(i)
             \/ /\ build_success
                /\ \E i \in Indices : results[i].name = "Firmware Binary" /\ CriticalFailing(i) )
    /\ [](firmware_path = "None" => firmware_size = 0)
    /\ [][ (firmware_path' # firmware_path \/ firmware_size' # firmware_size) =>
             /\ pc = "analyze_firmware_size"
             /\ firmware_path = "None"
             /\ firmware_path' = FIRMWARE_BIN
             /\ observed'["firmware"].exists
             /\ firmware_size' = observed'["firmware"].size ]_vars

\* the build succeeded and left no binary
C9_Witness ==
    /\ pc = "returned"
    /\ build_success
    /\ firmware_path = "None"
    /\ HasName("Firmware Binary")

(***************************************************************************)
(* C10.  As claimed: no two results of a report carry the same name, also  *)
(* when run_all_checks is called again on the same validator.  The code    *)
(* does not do this: the report is created in __init__, so a second call   *)
(* adds 'Source Files' a second time.                                      *)
(***************************************************************************)
C10_UniqueNames ==
    \A i, j \in Indices : i # j => results[i].name # results[j].name

(***************************************************************************)
(* C11.  analyze_memory_usage adds a 'RAM Usage' result exactly when the   *)
(* verbose build output matches the RAM pattern; a percentage of 85 or     *)
(* more is critical and failed, of 70 or more and below 85 warning and     *)
(* passed, below 70 info and passed; without a match the step leaves the   *)
(* report as it was.                                                       *)
(***************************************************************************)
C11_RamUsage ==
    /\ [](~Known("verbose") => ~HasName("RAM Usage"))
    /\ [](Known("verbose") =>
            LET run == observed["verbose"]
                found == run.raises = "none" /\ run.ram_match
            IN /\ HasName("RAM Usage") <=> found
               /\ \A i \in Indices :
                    results[i].name = "RAM Usage" =>
                      LET r == results[i]
                      IN /\ run.ram_pct >= 850 =>
                              (r.severity = "critical" /\ r.passed = FALSE)
                         /\ (run.ram_pct >= 700 /\ run.ram_pct < 850) =>
                              (r.severity = "warning" /\ r.passed = TRUE)
                         /\ run.ram_pct < 700 => (r.severity = "info" /\ r.passed = TRUE))
    /\ [][ ( /\ pc = "analyze_memory_usage"
             /\ ~(observed'["verbose"].raises = "none" /\ observed'["verbose"].ram_match) )
           => results' = results ]_vars

\* a RAM percentage of exactly 85.0 has been classified critical
C11_Witness ==
    /\ Known("verbose")
    /\ observed["verbose"].ram_match
    /\ observed["verbose"].ram_pct = 850
    /\ \E i \in Indices : results[i].name = "RAM Usage" /\ CriticalFailing(i)

(***************************************************************************)
(* C12.  As claimed: a timeout or a failure to start of either toolchain   *)
(* invocation puts a critical failing result into the report, so that the  *)
(* run cannot exit 0.  The code does this for the build only: an error of  *)
(* the verbose invocation in analyze_memory_usage is logged and dropped.   *)
(***************************************************************************)
C12_InvocationErrorsReported ==
    /\ (Known("build") /\ observed["build"].raises # "none") =>
          /\ \E i \in Indices : CriticalFailing(i)
          /\ Decided => exit_code # 0
    /\ (Known("verbose") /\ observed["verbose"].raises # "none") =>
          /\ \E i \in Indices : CriticalFailing(i)
          /\ Decided => exit_code # 0

(***************************************************************************)
(* C13.  As claimed: every step of a source analyzer adds no result or     *)
(* one, and adds none when its input file is absent: check_string_safety   *)
(* when neither src/main.cpp nor src/admin_html.h exists, the checks of    *)
(* src/main.cpp when it is absent, the OTA feature check when src/config.h *)
(* is absent.  The code does not do this in check_string_safety, which     *)
(* adds 'PROGMEM Usage' whether or not its files exist.                    *)
(***************************************************************************)
C13_AbsentInputNoResult ==
    [][ /\ Len(results') \in {Len(results), Len(results) + 1}
        /\ ( /\ pc = "check_string_safety"
             /\ ~exists("src/main.cpp")
             /\ ~exists("src/admin_html.h") ) => results' = results
        /\ ( /\ pc \in {"check_watchdog_timer", "check_ota_handler", "check_safe_mode",
                        "check_infinite_loops", "check_blocking_code",
                        "check_memory_allocations"}
             /\ ~exists("src/main.cpp") ) => results' = results
        /\ (pc = "check_required_features" /\ ~exists("src/config.h")) => results' = results
      ]_vars

OrderOf(n) ==
    CASE n = "Source Files" -> 1
      [] n = "OTA Update Feature" -> 2
      [] n = "Watchdog Timer" -> 3
      [] n = "OTA Handler" -> 4
      [] n = "Safe Mode/Recovery" -> 5
      [] n = "Build" -> 6
      [] n \in {"Firmware Binary", "Firmware Size"} -> 7
      [] n = "RAM Usage" -> 8
      [] n = "PROGMEM Usage" -> 9
      [] n = "Infinite Loop Check" -> 10
      [] n = "Blocking Code" -> 11
      [] n = "Memory Allocations" -> 12
      [] OTHER -> 0

(***************************************************************************)
(* C15: the report is append-only in execution order.  Every step of a     *)
(* run leaves results as it was or adds one entry at its end, the entries  *)
(* before it unchanged; and in a finished report the names follow the      *)
(* fixed order Source Files, OTA Update Feature, Watchdog Timer,           *)
(* OTA Handler, Safe Mode/Recovery, Build, Firmware Binary | Firmware      *)
(* Size, RAM Usage, PROGMEM Usage, Infinite Loop Check, Blocking Code,     *)
(* Memory Allocations (each place taken at most once), the first entry is  *)
(* 'Source Files' and 'Build' is present.                                  *)
(***************************************************************************)
C15_AppendOnlyInOrder ==
    /\ [][ \/ results' = results
           \/ /\ Len(results') = Len(results) + 1
              /\ SubSeq(results', 1, Len(results)) = results ]_vars
    /\ [](Finished =>
            /\ \A i \in Indices : OrderOf(results[i].name) > 0
            /\ \A i, j \in Indices :
                  i < j => OrderOf(results[i].name) < OrderOf(results[j].name)
            /\ results # <<>>
            /\ results[1].name = "Source Files"
            /\ HasName("Build"))

\* a finished report that leaves places of the order out: no
\* 'OTA Update Feature' (no src/config.h), and a result after 'Build'
C15_Witness ==
    /\ Finished
    /\ ~HasName("OTA Update Feature")
    /\ HasName("Watchdog Timer")
    /\ HasName("Firmware Binary")
    /\ HasName("PROGMEM Usage")

(***************************************************************************)
(* C16: an error inside one check never aborts its sibling checks or the   *)
(* run: also when reading a check's input text fails, no error leaves the  *)
(* check as an uncaught failure out of run_all_checks, so the run is never *)
(* ended by an exception.                                                  *)
(***************************************************************************)
C16_NoUncaughtError == pc # "crashed"

(***************************************************************************)
(* C17: every run ends with a finalized report.  A run that is under way   *)
(* always has a next step until run_all_checks has returned; it has        *)
(* returned right after the build when the build did not succeed and after *)
(* Phase 3 and 4 (the verbose invocation made) when it did; the toolchain  *)
(* is invoked a second time only after the first invocation succeeded.     *)
(***************************************************************************)
C17_RunReachesTerminalState ==
    /\ (runs > 0 /\ ~RunOver) => ENABLED IONext
    /\ (runs > 0 /\ RunOver /\ ~build_success) =>
          (results # <<>> /\ results[Len(results)].name = "Build")
    /\ (runs > 0 /\ RunOver /\ build_success) => Known("verbose")
    /\ Known("verbose") =>
          /\ Known("build")
          /\ observed["build"].raises = "none"
          /\ observed["build"].returncode = 0

\* the results of the report that did not pass
Failing == {i \in Indices : ~results[i].passed}

(***************************************************************************)
(* C18: passed and severity are coupled in every result the pipeline       *)
(* appends: a result that did not pass has severity warning or critical,   *)
(* never info; a critical result did not pass; so every failing result is  *)
(* counted by exactly one of critical_failures and warnings; and the only  *)
(* results that passed with severity warning are 'Firmware Size' and       *)
(* 'RAM Usage'.                                                            *)
(***************************************************************************)
C18_PassedSeverityCoupling ==
    /\ \A i \in Indices :
          /\ ~results[i].passed => results[i].severity \in {"warning", "critical"}
          /\ results[i].severity = "critical" => ~results[i].passed
          /\ (results[i].severity = "warning" /\ results[i].passed) =>
                results[i].name \in {"Firmware Size", "RAM Usage"}
          /\ ~results[i].passed => (CriticalFailing(i) # WarningFailing(i))
    /\ Len(critical_failures(results)) + Len(warnings(results)) = Cardinality(Failing)

\* a finished report with a critical failure, a failing warning, and both
\* 'Firmware Size' and 'RAM Usage' passed with severity warning
C18_Witness ==
    /\ Finished
    /\ \E i \in Indices : CriticalFailing(i)
    /\ \E i \in Indices : WarningFailing(i)
    /\ \E i \in Indices : /\ results[i].name = "Firmware Size"
                           /\ results[i].severity = "warning"
                           /\ results[i].passed
    /\ \E i \in Indices : /\ results[i].name = "RAM Usage"
                           /\ results[i].severity = "warning"
                           /\ results[i].passed

====
